---------------------------- MODULE Spec2Model ----------------------------
(***************************************************************************)
(* Model of src/mcp_server/server.py: the add_expense tool, which          *)
(* validates an amount, derives a receipt identifier, maps the payment     *)
(* method and status onto closed label tables, builds a 12-column row and  *)
(* appends it to a remote spreadsheet.                                     *)
(*                                                                         *)
(* A Python str is modelled as a sequence of characters.  A character is   *)
(* a one-character string when it is ASCII and the string "U+XXXX" (its    *)
(* code point) otherwise; the line feed is "\n".                           *)
(***************************************************************************)
EXTENDS Integers, Sequences, FiniteSets, TLC

VARIABLES
  workload,   \* which family of arguments the callers send
  clock,      \* the wall clock, in seconds since the Unix epoch (UTC)
  store,      \* the spreadsheet service: the rows appended so far, in order
  call        \* per invocation of add_expense: its position and its locals

vars == <<workload, clock, store, call>>

----------------------------------------------------------------------------
(* Characters and str methods                                              *)

AsciiChars ==
  <<" ", "!", "\"", "#", "$", "%", "&", "'", "(", ")", "*", "+",
    ",", "-", ".", "/", "0", "1", "2", "3", "4", "5", "6", "7",
    "8", "9", ":", ";", "<", "=", ">", "?", "@", "A", "B", "C",
    "D", "E", "F", "G", "H", "I", "J", "K", "L", "M", "N", "O",
    "P", "Q", "R", "S", "T", "U", "V", "W", "X", "Y", "Z", "[",
    "\\", "]", "^", "_", "U+0060", "a", "b", "c", "d", "e", "f", "g",
    "h", "i", "j", "k", "l", "m", "n", "o", "p", "q", "r", "s",
    "t", "u", "v", "w", "x", "y", "z", "{", "|", "}", "~" >>

\* The line feed and the non-ASCII characters that occur in the program's
\* literals, with their code points.  (The grave accent, code point 96, is
\* written "U+0060" in AsciiChars.)
OtherChars ==
  [ c \in {"\n", "U+00C1", "U+00C9", "U+00CD", "U+00D3", "U+00E1", "U+00E9",
           "U+00ED", "U+00F3", "U+2705", "U+274C", "U+FE0F", "U+1F3F7",
           "U+1F4B0", "U+1F4B3", "U+1F4C5", "U+1F4CA", "U+1F4CB",
           "U+1F4CD", "U+1F4DD"} |->
      CASE c = "\n"      -> 10
        [] c = "U+00C1"  -> 193
        [] c = "U+00C9"  -> 201
        [] c = "U+00CD"  -> 205
        [] c = "U+00D3"  -> 211
        [] c = "U+00E1"  -> 225
        [] c = "U+00E9"  -> 233
        [] c = "U+00ED"  -> 237
        [] c = "U+00F3"  -> 243
        [] c = "U+2705"  -> 9989
        [] c = "U+274C"  -> 10060
        [] c = "U+FE0F"  -> 65039
        [] c = "U+1F3F7" -> 127991
        [] c = "U+1F4B0" -> 128176
        [] c = "U+1F4B3" -> 128179
        [] c = "U+1F4C5" -> 128197
        [] c = "U+1F4CA" -> 128202
        [] c = "U+1F4CB" -> 128203
        [] c = "U+1F4CD" -> 128205
        [] c = "U+1F4DD" -> 128221 ]

AsciiSet == {AsciiChars[i] : i \in 1..Len(AsciiChars)}

CodePointTable ==
  [c \in AsciiSet \cup DOMAIN OtherChars |->
     IF c \in AsciiSet
       THEN 31 + (CHOOSE i \in 1..Len(AsciiChars) : AsciiChars[i] = c)
       ELSE OtherChars[c]]

CodePoint(c) == CodePointTable[c]

CharOf(n) ==
  IF 32 <= n /\ n <= 126 THEN AsciiChars[n - 31]
  ELSE CHOOSE c \in DOMAIN OtherChars : OtherChars[c] = n

\* str.upper() on one character: a-z and the accented lower-case vowels have
\* an upper-case partner 32 code points below; every other character of
\* the alphabet is unchanged.
UpperChar(c) ==
  LET n == CodePoint(c)
  IN IF (97 <= n /\ n <= 122) \/ n \in {225, 233, 237, 243}
       THEN CharOf(n - 32)
       ELSE c

\* str.upper()
Upper(s) == [i \in 1..Len(s) |-> UpperChar(s[i])]

\* str.replace(old, new) for a one-character old and new
Replace(s, old, new) == [i \in 1..Len(s) |-> IF s[i] = old THEN new ELSE s[i]]

IsSpace(c) == c \in {" ", "\n"}

LStrip(s) ==
  LET keep == {i \in 1..Len(s) : ~IsSpace(s[i])}
  IN IF keep = {} THEN <<>>
     ELSE SubSeq(s, CHOOSE i \in keep : \A j \in keep : i <= j, Len(s))

RStrip(s) ==
  LET keep == {i \in 1..Len(s) : ~IsSpace(s[i])}
  IN IF keep = {} THEN <<>>
     ELSE SubSeq(s, 1, CHOOSE i \in keep : \A j \in keep : i >= j)

\* str.strip()
Strip(s) == LStrip(RStrip(s))

\* str.encode(): UTF-8
Utf8(c) ==
  LET n == CodePoint(c)
  IN IF n < 128 THEN <<n>>
     ELSE IF n < 2048 THEN <<192 + (n \div 64), 128 + (n % 64)>>
     ELSE IF n < 65536
       THEN <<224 + (n \div 4096), 128 + ((n \div 64) % 64), 128 + (n % 64)>>
     ELSE <<240 + (n \div 262144), 128 + ((n \div 4096) % 64),
            128 + ((n \div 64) % 64), 128 + (n % 64)>>

RECURSIVE Encode(_)
Encode(s) == IF s = <<>> THEN <<>> ELSE Utf8(Head(s)) \o Encode(Tail(s))

----------------------------------------------------------------------------
(* hashlib.md5.  A 32-bit word is a pair <<high 16 bits, low 16 bits>>.    *)

MD5_K ==
  <<<<55146, 42104>>, <<59591, 46934>>, <<9248, 28891>>, <<49597, 52974>>,
    <<62844, 4015>>, <<18311, 50730>>, <<43056, 17939>>, <<64838, 38145>>,
    <<27008, 39128>>, <<35652, 63407>>, <<65535, 23473>>, <<35164, 55230>>,
    <<27536, 4386>>, <<64920, 29075>>, <<42617, 17294>>, <<18868, 2081>>,
    <<63006, 9570>>, <<49216, 45888>>, <<9822, 23121>>, <<59830, 51114>>,
    <<54831, 4189>>, <<580, 5203>>, <<55457, 59009>>, <<59347, 64456>>,
    <<8673, 52710>>, <<49975, 2006>>, <<62677, 3463>>, <<17754, 5357>>,
    <<43491, 59653>>, <<64751, 41976>>, <<26479, 729>>, <<36138, 19594>>,
    <<65530, 14658>>, <<34673, 63105>>, <<28061, 24866>>, <<64997, 14348>>,
    <<42174, 59972>>, <<19422, 53161>>, <<63163, 19296>>, <<48831, 48240>>,
    <<10395, 32454>>, <<60065, 10234>>, <<54511, 12421>>, <<1160, 7429>>,
    <<55764, 53305>>, <<59099, 39397>>, <<8098, 31992>>, <<50348, 22117>>,
    <<62505, 8772>>, <<17194, 65431>>, <<43924, 9127>>, <<64659, 41017>>,
    <<25947, 22979>>, <<36620, 52370>>, <<65519, 62589>>, <<34180, 24017>>,
    <<28584, 32335>>, <<65068, 59104>>, <<41729, 17172>>, <<19976, 4513>>,
    <<63315, 32386>>, <<48442, 62005>>, <<10967, 53947>>, <<60294, 54161>> >>

MD5_S ==
  <<7, 12, 17, 22, 7, 12, 17, 22, 7, 12, 17, 22, 7, 12, 17, 22,
    5, 9, 14, 20, 5, 9, 14, 20, 5, 9, 14, 20, 5, 9, 14, 20,
    4, 11, 16, 23, 4, 11, 16, 23, 4, 11, 16, 23, 4, 11, 16, 23,
    6, 10, 15, 21, 6, 10, 15, 21, 6, 10, 15, 21, 6, 10, 15, 21 >>

\* The initial chaining value: 0x67452301, 0xefcdab89, 0x98badcfe, 0x10325476
MD5_IV == <<<<26437, 8961>>, <<61389, 43913>>, <<39098, 56574>>, <<4146, 21622>>>>

Add32(x, y) ==
  LET lo == x[2] + y[2]
      hi == x[1] + y[1] + (lo \div 65536)
  IN <<hi % 65536, lo % 65536>>

\* rotate left by s, 0 <= s < 16
Rotl16(x, s) ==
  <<((x[1] * (2^s)) % 65536) + (x[2] \div (2^(16 - s))),
    ((x[2] * (2^s)) % 65536) + (x[1] \div (2^(16 - s)))>>

Rotl32(x, s) == IF s >= 16 THEN Rotl16(<<x[2], x[1]>>, s - 16) ELSE Rotl16(x, s)

\* The round function of round group f on one bit of b, c, d
MixBit(f, b, c, d) ==
  CASE f = 0 -> IF b = 1 THEN c ELSE d
    [] f = 1 -> IF d = 1 THEN b ELSE c
    [] f = 2 -> (b + c + d) % 2
    [] f = 3 -> (c + (IF b = 1 \/ d = 0 THEN 1 ELSE 0)) % 2

RECURSIVE Mix16(_, _, _, _, _)
Mix16(f, b, c, d, n) ==
  IF n = 0 THEN 0
  ELSE MixBit(f, b % 2, c % 2, d % 2)
       + 2 * Mix16(f, b \div 2, c \div 2, d \div 2, n - 1)

\* The round functions on 4-bit operands, tabulated
MixTable ==
  [f \in 0..3 |-> [b \in 0..15 |-> [c \in 0..15 |-> [d \in 0..15 |->
     Mix16(f, b, c, d, 4)]]]]

\* The round function of group f on 16-bit operands, four bits at a time
MixHalf(f, b, c, d) ==
  LET T == MixTable[f]
  IN T[b % 16][c % 16][d % 16]
     + (16 * T[(b \div 16) % 16][(c \div 16) % 16][(d \div 16) % 16])
     + (256 * T[(b \div 256) % 16][(c \div 256) % 16][(d \div 256) % 16])
     + (4096 * T[b \div 4096][c \div 4096][d \div 4096])

Mix32(f, b, c, d) == <<MixHalf(f, b[1], c[1], d[1]), MixHalf(f, b[2], c[2], d[2])>>

MsgIndex(i) ==
  CASE i < 16 -> i
    [] i >= 16 /\ i < 32 -> (5 * i + 1) % 16
    [] i >= 32 /\ i < 48 -> (3 * i + 5) % 16
    [] i >= 48 -> (7 * i) % 16

\* Rounds i..(n - 1) on the state st = <<a, b, c, d>> with message words m
RECURSIVE MD5Rounds(_, _, _, _)
MD5Rounds(i, n, st, m) ==
  IF Len(st) = 4 /\ i = n THEN st
  ELSE LET f == Mix32(i \div 16, st[2], st[3], st[4])
           t == Add32(Add32(f, st[1]), Add32(MD5_K[i + 1], m[MsgIndex(i) + 1]))
           b == Add32(st[2], Rotl32(t, MD5_S[i + 1]))
       IN MD5Rounds(i + 1, n, <<st[4], b, st[2], st[3]>>, m)

\* The 64 rounds, eight at a time
MD5Compress(st, m) ==
  MD5Rounds(56, 64,
    MD5Rounds(48, 56,
      MD5Rounds(40, 48,
        MD5Rounds(32, 40,
          MD5Rounds(24, 32,
            MD5Rounds(16, 24,
              MD5Rounds(8, 16,
                MD5Rounds(0, 8, st, m), m), m), m), m), m), m), m)

\* The 16 little-endian words of the 64-byte block starting after byte off
BlockWords(bytes, off) ==
  [j \in 1..16 |->
     LET p == off + 4 * (j - 1)
     IN <<bytes[p + 3] + (256 * bytes[p + 4]), bytes[p + 1] + (256 * bytes[p + 2])>>]

\* The chaining value after a block: the state before plus the rounds' result
MD5Chain(st, r) ==
  <<Add32(st[1], r[1]), Add32(st[2], r[2]), Add32(st[3], r[3]), Add32(st[4], r[4])>>

RECURSIVE MD5Blocks(_, _, _)
MD5Blocks(bytes, off, st) ==
  IF off >= Len(bytes) THEN st
  ELSE MD5Blocks(bytes, off + 64,
                 MD5Chain(st, MD5Compress(st, BlockWords(bytes, off) \o <<>>)))

\* The message followed by 0x80, zeros up to 56 mod 64, and its length in
\* bits as a 64-bit little-endian integer
MD5Pad(bytes) ==
  LET n == Len(bytes)
      z == (55 - n) % 64
      bits == 8 * n
  IN bytes \o <<128>> \o [i \in 1..z |-> 0]
     \o <<bits % 256, (bits \div 256) % 256, (bits \div 65536) % 256,
          (bits \div 16777216) % 256, 0, 0, 0, 0>>

HexDigits == <<"0", "1", "2", "3", "4", "5", "6", "7", "8", "9",
               "a", "b", "c", "d", "e", "f">>

HexByte(b) == <<HexDigits[(b \div 16) + 1], HexDigits[(b % 16) + 1]>>

\* The bytes of a word, least significant first
WordBytes(w) == <<w[2] % 256, w[2] \div 256, w[1] % 256, w[1] \div 256>>

RECURSIVE HexBytes(_)
HexBytes(bs) == IF bs = <<>> THEN <<>> ELSE HexByte(Head(bs)) \o HexBytes(Tail(bs))

\* hashlib.md5(bytes).hexdigest()
MD5Hex(bytes) ==
  LET st == MD5Blocks(MD5Pad(bytes), 0, MD5_IV)
  IN HexBytes(WordBytes(st[1]) \o WordBytes(st[2])
              \o WordBytes(st[3]) \o WordBytes(st[4]))

\* Mutant: the timestamp is left out of the hashed string
generate_receipt_id_NoTimestamp(description, amount, timestamp) ==
  LET combined == description \o amount
  IN Upper(SubSeq(MD5Hex(Encode(combined)), 1, 8))

\* generate_receipt_id
generate_receipt_id(description, amount, timestamp) ==
  LET combined == description \o amount \o timestamp
  IN Upper(SubSeq(MD5Hex(Encode(combined)), 1, 8))

----------------------------------------------------------------------------
(* float(str)                                                              *)

Digits == {"0", "1", "2", "3", "4", "5", "6", "7", "8", "9"}

IsDigit(c) == c \in Digits

AllDigits(s) == \A i \in 1..Len(s) : IsDigit(s[i])

DigitVal(c) == CodePoint(c) - 48

\* The position of the first element of s that is in set cs, or 0
FirstIn(s, cs) ==
  IF \E i \in 1..Len(s) : s[i] \in cs
    THEN CHOOSE i \in 1..Len(s) : s[i] \in cs /\ \A j \in 1..(i - 1) : s[j] \notin cs
    ELSE 0

\* An underscore may stand only between two digits
UnderscoresOk(s) ==
  \A i \in 1..Len(s) :
    s[i] = "_" => /\ i > 1 /\ i < Len(s)
                  /\ IsDigit(s[i - 1]) /\ IsDigit(s[i + 1])

RemoveUnderscores(s) == SelectSeq(s, LAMBDA c : c # "_")

DropLeadingZeros(s) ==
  LET keep == {i \in 1..Len(s) : s[i] # "0"}
  IN IF keep = {} THEN <<>>
     ELSE SubSeq(s, CHOOSE i \in keep : \A j \in keep : i <= j, Len(s))

\* The value of a digit string of at most nine digits
RECURSIVE DecimalValue(_)
DecimalValue(s) ==
  IF s = <<>> THEN 0
  ELSE (10 * DecimalValue(SubSeq(s, 1, Len(s) - 1))) + DigitVal(s[Len(s)])

\* The value of an exponent's digits, saturating at 999999: an exponent
\* beyond that is out of a double's range for every mantissa of fewer than
\* 999000 digits
ExponentValue(s) ==
  LET t == DropLeadingZeros(s)
  IN IF Len(t) > 6 THEN 999999 ELSE DecimalValue(t)

\* The digits of 2^-1075 = 5^1075 * 10^-1075, half the smallest subnormal
\* double (2.4703282292062327...e-324), all 752 of them
HalfMinSubnormal ==
  <<2, 4, 7, 0, 3, 2, 8, 2, 2, 9, 2, 0, 6, 2, 3, 2, 7, 2, 0, 8, 8, 2, 8, 4,
    3, 9, 6, 4, 3, 4, 1, 1, 0, 6, 8, 6, 1, 8, 2, 5, 2, 9, 9, 0, 1, 3, 0, 7,
    1, 6, 2, 3, 8, 2, 2, 1, 2, 7, 9, 2, 8, 4, 1, 2, 5, 0, 3, 3, 7, 7, 5, 3,
    6, 3, 5, 1, 0, 4, 3, 7, 5, 9, 3, 2, 6, 4, 9, 9, 1, 8, 1, 8, 0, 8, 1, 7,
    9, 9, 6, 1, 8, 9, 8, 9, 8, 2, 8, 2, 3, 4, 7, 7, 2, 2, 8, 5, 8, 8, 6, 5,
    4, 6, 3, 3, 2, 8, 3, 5, 5, 1, 7, 7, 9, 6, 9, 8, 9, 8, 1, 9, 9, 3, 8, 7,
    3, 9, 8, 0, 0, 5, 3, 9, 0, 9, 3, 9, 0, 6, 3, 1, 5, 0, 3, 5, 6, 5, 9, 5,
    1, 5, 5, 7, 0, 2, 2, 6, 3, 9, 2, 2, 9, 0, 8, 5, 8, 3, 9, 2, 4, 4, 9, 1,
    0, 5, 1, 8, 4, 4, 3, 5, 9, 3, 1, 8, 0, 2, 8, 4, 9, 9, 3, 6, 5, 3, 6, 1,
    5, 2, 5, 0, 0, 3, 1, 9, 3, 7, 0, 4, 5, 7, 6, 7, 8, 2, 4, 9, 2, 1, 9, 3,
    6, 5, 6, 2, 3, 6, 6, 9, 8, 6, 3, 6, 5, 8, 4, 8, 0, 7, 5, 7, 0, 0, 1, 5,
    8, 5, 7, 6, 9, 2, 6, 9, 9, 0, 3, 7, 0, 6, 3, 1, 1, 9, 2, 8, 2, 7, 9, 5,
    5, 8, 5, 5, 1, 3, 3, 2, 9, 2, 7, 8, 3, 4, 3, 3, 8, 4, 0, 9, 3, 5, 1, 9,
    7, 8, 0, 1, 5, 5, 3, 1, 2, 4, 6, 5, 9, 7, 2, 6, 3, 5, 7, 9, 5, 7, 4, 6,
    2, 2, 7, 6, 6, 4, 6, 5, 2, 7, 2, 8, 2, 7, 2, 2, 0, 0, 5, 6, 3, 7, 4, 0,
    0, 6, 4, 8, 5, 4, 9, 9, 9, 7, 7, 0, 9, 6, 5, 9, 9, 4, 7, 0, 4, 5, 4, 0,
    2, 0, 8, 2, 8, 1, 6, 6, 2, 2, 6, 2, 3, 7, 8, 5, 7, 3, 9, 3, 4, 5, 0, 7,
    3, 6, 3, 3, 9, 0, 0, 7, 9, 6, 7, 7, 6, 1, 9, 3, 0, 5, 7, 7, 5, 0, 6, 7,
    4, 0, 1, 7, 6, 3, 2, 4, 6, 7, 3, 6, 0, 0, 9, 6, 8, 9, 5, 1, 3, 4, 0, 5,
    3, 5, 5, 3, 7, 4, 5, 8, 5, 1, 6, 6, 6, 1, 1, 3, 4, 2, 2, 3, 7, 6, 6, 6,
    7, 8, 6, 0, 4, 1, 6, 2, 1, 5, 9, 6, 8, 0, 4, 6, 1, 9, 1, 4, 4, 6, 7, 2,
    9, 1, 8, 4, 0, 3, 0, 0, 5, 3, 0, 0, 5, 7, 5, 3, 0, 8, 4, 9, 0, 4, 8, 7,
    6, 5, 3, 9, 1, 7, 1, 1, 3, 8, 6, 5, 9, 1, 6, 4, 6, 2, 3, 9, 5, 2, 4, 9,
    1, 2, 6, 2, 3, 6, 5, 3, 8, 8, 1, 8, 7, 9, 6, 3, 6, 2, 3, 9, 3, 7, 3, 2,
    8, 0, 4, 2, 3, 8, 9, 1, 0, 1, 8, 6, 7, 2, 3, 4, 8, 4, 9, 7, 6, 6, 8, 2,
    3, 5, 0, 8, 9, 8, 6, 3, 3, 8, 8, 5, 8, 7, 9, 2, 5, 6, 2, 8, 3, 0, 2, 7,
    5, 5, 9, 9, 5, 6, 5, 7, 5, 2, 4, 4, 5, 5, 5, 0, 7, 2, 5, 5, 1, 8, 9, 3,
    1, 3, 6, 9, 0, 8, 3, 6, 2, 5, 4, 7, 7, 9, 1, 8, 6, 9, 4, 8, 6, 6, 7, 9,
    9, 4, 9, 6, 8, 3, 2, 4, 0, 4, 9, 7, 0, 5, 8, 2, 1, 0, 2, 8, 5, 1, 3, 1,
    8, 5, 4, 5, 1, 3, 9, 6, 2, 1, 3, 8, 3, 7, 7, 2, 2, 8, 2, 6, 1, 4, 5, 4,
    3, 7, 6, 9, 3, 4, 1, 2, 5, 3, 2, 0, 9, 8, 5, 9, 1, 3, 2, 7, 6, 6, 7, 2,
    3, 6, 3, 2, 8, 1, 2, 5>>

\* The digits of 2^1024 - 2^970, the midpoint between the largest double and
\* 2^1024 (1.7976931348623158...e308), an integer of 309 digits
OverflowMidpoint ==
  <<1, 7, 9, 7, 6, 9, 3, 1, 3, 4, 8, 6, 2, 3, 1, 5, 8, 0, 7, 9, 3, 7, 2, 8,
    9, 7, 1, 4, 0, 5, 3, 0, 3, 4, 1, 5, 0, 7, 9, 9, 3, 4, 1, 3, 2, 7, 1, 0,
    0, 3, 7, 8, 2, 6, 9, 3, 6, 1, 7, 3, 7, 7, 8, 9, 8, 0, 4, 4, 4, 9, 6, 8,
    2, 9, 2, 7, 6, 4, 7, 5, 0, 9, 4, 6, 6, 4, 9, 0, 1, 7, 9, 7, 7, 5, 8, 7,
    2, 0, 7, 0, 9, 6, 3, 3, 0, 2, 8, 6, 4, 1, 6, 6, 9, 2, 8, 8, 7, 9, 1, 0,
    9, 4, 6, 5, 5, 5, 5, 4, 7, 8, 5, 1, 9, 4, 0, 4, 0, 2, 6, 3, 0, 6, 5, 7,
    4, 8, 8, 6, 7, 1, 5, 0, 5, 8, 2, 0, 6, 8, 1, 9, 0, 8, 9, 0, 2, 0, 0, 0,
    7, 0, 8, 3, 8, 3, 6, 7, 6, 2, 7, 3, 8, 5, 4, 8, 4, 5, 8, 1, 7, 7, 1, 1,
    5, 3, 1, 7, 6, 4, 4, 7, 5, 7, 3, 0, 2, 7, 0, 0, 6, 9, 8, 5, 5, 5, 7, 1,
    3, 6, 6, 9, 5, 9, 6, 2, 2, 8, 4, 2, 9, 1, 4, 8, 1, 9, 8, 6, 0, 8, 3, 4,
    9, 3, 6, 4, 7, 5, 2, 9, 2, 7, 1, 9, 0, 7, 4, 1, 6, 8, 4, 4, 4, 3, 6, 5,
    5, 1, 0, 7, 0, 4, 3, 4, 2, 7, 1, 1, 5, 5, 9, 6, 9, 9, 5, 0, 8, 0, 9, 3,
    0, 4, 2, 8, 8, 0, 1, 7, 7, 9, 0, 4, 1, 7, 4, 4, 9, 7, 7, 9, 2>>

\* sig (a digit string) against thr (a sequence of digit values), both read
\* as d.ddd... and padded with zeros on the right: -1, 0 or 1
CompareDigits(sig, thr) ==
  LET n == IF Len(sig) > Len(thr) THEN Len(sig) ELSE Len(thr)
      a(i) == IF i <= Len(sig) THEN DigitVal(sig[i]) ELSE 0
      b(i) == IF i <= Len(thr) THEN thr[i] ELSE 0
      differs == {i \in 1..n : a(i) # b(i)}
  IN IF differs = {} THEN 0
     ELSE LET i == CHOOSE i \in differs : \A j \in differs : i <= j
          IN IF a(i) < b(i) THEN -1 ELSE 1

\* The double nearest to sig * 10^e10 (sig without leading zeros, non-empty),
\* ties to even: "zero" up to and including half the smallest subnormal,
\* "inf" from the midpoint above the largest double on, "finite" otherwise.
RoundsTo(sig, e10) ==
  LET k == (Len(sig) - 1) + e10
  IN IF k < -324 THEN "zero"
     ELSE IF k = -324
       THEN (IF CompareDigits(sig, HalfMinSubnormal) <= 0 THEN "zero" ELSE "finite")
     ELSE IF k > 308 THEN "inf"
     ELSE IF k = 308
       THEN (IF CompareDigits(sig, OverflowMidpoint) >= 0 THEN "inf" ELSE "finite")
     ELSE "finite"

NotANumber == [ok |-> FALSE, kind |-> "error", neg |-> FALSE, sig |-> <<>>, e10 |-> 0]

\* [+-]? digits of the exponent: whether it is well formed, and its value
ParseExponent(x) ==
  LET signed == x # <<>> /\ Head(x) \in {"+", "-"}
      ds == IF signed THEN Tail(x) ELSE x
      mag == ExponentValue(ds)
  IN IF ds = <<>> \/ ~AllDigits(ds) THEN [ok |-> FALSE, val |-> 0]
     ELSE [ok |-> TRUE, val |-> IF signed /\ Head(x) = "-" THEN 0 - mag ELSE mag]

\* digits [. digits] [e [+-] digits], with at least one mantissa digit
ParseDecimal(body, neg) ==
  LET ePos == FirstIn(body, {"e", "E"})
      mant == IF ePos = 0 THEN body ELSE SubSeq(body, 1, ePos - 1)
      exp == IF ePos = 0 THEN [ok |-> TRUE, val |-> 0]
             ELSE ParseExponent(SubSeq(body, ePos + 1, Len(body)))
      dot == FirstIn(mant, {"."})
      ip == IF dot = 0 THEN mant ELSE SubSeq(mant, 1, dot - 1)
      fp == IF dot = 0 THEN <<>> ELSE SubSeq(mant, dot + 1, Len(mant))
      sig == DropLeadingZeros(ip \o fp)
  IN IF ~exp.ok \/ ~AllDigits(ip) \/ ~AllDigits(fp) \/ ip \o fp = <<>>
       THEN NotANumber
     ELSE IF sig = <<>>
       THEN [ok |-> TRUE, kind |-> "zero", neg |-> neg, sig |-> <<>>, e10 |-> 0]
     ELSE [ok |-> TRUE, kind |-> RoundsTo(sig, exp.val - Len(fp)), neg |-> neg,
           sig |-> sig, e10 |-> exp.val - Len(fp)]

\* float(s): ok is FALSE where Python raises ValueError; otherwise kind is
\* "nan", "inf", "zero" or "finite", neg is the sign, and a finite value is
\* sig * 10^e10 rounded to a double.
ParseFloat(s) ==
  LET t == Strip(s)
      u == RemoveUnderscores(t)
      signed == u # <<>> /\ Head(u) \in {"+", "-"}
      neg == signed /\ Head(u) = "-"
      body == IF signed THEN Tail(u) ELSE u
      low == [i \in 1..Len(body) |->
                IF CodePoint(body[i]) >= 65 /\ CodePoint(body[i]) <= 90
                  THEN CharOf(CodePoint(body[i]) + 32) ELSE body[i]]
  IN IF ~UnderscoresOk(t) THEN NotANumber
     ELSE IF low \in {<<"i", "n", "f">>, <<"i", "n", "f", "i", "n", "i", "t", "y">>}
       THEN [ok |-> TRUE, kind |-> "inf", neg |-> neg, sig |-> <<>>, e10 |-> 0]
     ELSE IF low = <<"n", "a", "n">>
       THEN [ok |-> TRUE, kind |-> "nan", neg |-> neg, sig |-> <<>>, e10 |-> 0]
     ELSE ParseDecimal(body, neg)

\* x <= 0 for a float x: false for nan
FloatLeZero(x) ==
  CASE x.kind = "nan" -> FALSE
    [] x.kind = "zero" -> TRUE
    [] OTHER -> x.neg

----------------------------------------------------------------------------
(* datetime.now(pytz.timezone('Asia/Bangkok')) and strftime                *)

\* Asia/Bangkok is UTC+7 all year round
ICT_OFFSET == 25200

\* The civil date of a day number (days since 1970-01-01)
CivilFromDays(days) ==
  LET z == days + 719468
      era == z \div 146097
      doe == z - (era * 146097)
      yoe == (doe - (doe \div 1460) + (doe \div 36524) - (doe \div 146096)) \div 365
      doy == doe - ((365 * yoe) + (yoe \div 4) - (yoe \div 100))
      mp == ((5 * doy) + 2) \div 153
      d == doy - (((153 * mp) + 2) \div 5) + 1
      m == IF mp < 10 THEN mp + 3 ELSE mp - 9
      y == yoe + (era * 400) + (IF m <= 2 THEN 1 ELSE 0)
  IN [year |-> y, month |-> m, day |-> d]

\* datetime.now(ict) when the clock shows t seconds since the epoch
NowICT(t) ==
  LET local == t + ICT_OFFSET
      date == CivilFromDays(local \div 86400)
      sod == local % 86400
  IN [year |-> date.year, month |-> date.month, day |-> date.day,
      hour |-> sod \div 3600, minute |-> (sod \div 60) % 60, second |-> sod % 60]

DigitChar(n) == CharOf(48 + n)

Pad2(n) == <<DigitChar(n \div 10), DigitChar(n % 10)>>

Pad4(n) == Pad2(n \div 100) \o Pad2(n % 100)

MonthNames ==
  << <<"J", "a", "n", "u", "a", "r", "y">>,
     <<"F", "e", "b", "r", "u", "a", "r", "y">>,
     <<"M", "a", "r", "c", "h">>,
     <<"A", "p", "r", "i", "l">>,
     <<"M", "a", "y">>,
     <<"J", "u", "n", "e">>,
     <<"J", "u", "l", "y">>,
     <<"A", "u", "g", "u", "s", "t">>,
     <<"S", "e", "p", "t", "e", "m", "b", "e", "r">>,
     <<"O", "c", "t", "o", "b", "e", "r">>,
     <<"N", "o", "v", "e", "m", "b", "e", "r">>,
     <<"D", "e", "c", "e", "m", "b", "e", "r">> >>

\* now.strftime("%Y-%m-%d")
StrfDate(now) == Pad4(now.year) \o <<"-">> \o Pad2(now.month) \o <<"-">> \o Pad2(now.day)

\* now.strftime("%H:%M:%S")
StrfTime(now) == Pad2(now.hour) \o <<":">> \o Pad2(now.minute) \o <<":">> \o Pad2(now.second)

\* now.strftime("%B %Y")
StrfMonthYear(now) == MonthNames[now.month] \o <<" ">> \o Pad4(now.year)

----------------------------------------------------------------------------
(* The closed label tables and the deductibility table                     *)

\* class PaymentMethod(str, Enum): <<member name, value>>
PaymentMethod ==
  << <<<<"E", "F", "E", "C", "T", "I", "V", "O">>,
       <<"E", "f", "e", "c", "t", "i", "v", "o">>>>,
     <<<<"T", "A", "R", "J", "E", "T", "A", "_", "C", "R", "E", "D", "I",
           "T", "O">>,
       <<"T", "a", "r", "j", "e", "t", "a", " ", "C", "r", "U+00E9", "d",
           "i", "t", "o">>>>,
     <<<<"T", "A", "R", "J", "E", "T", "A", "_", "D", "E", "B", "I", "T",
           "O">>,
       <<"T", "a", "r", "j", "e", "t", "a", " ", "D", "U+00E9", "b", "i",
           "t", "o">>>>,
     <<<<"T", "R", "A", "N", "S", "F", "E", "R", "E", "N", "C", "I", "A">>,
       <<"T", "r", "a", "n", "s", "f", "e", "r", "e", "n", "c", "i", "a">>>>,
     <<<<"B", "I", "L", "L", "E", "T", "E", "R", "A", "_", "D", "I", "G",
           "I", "T", "A", "L">>,
       <<"B", "i", "l", "l", "e", "t", "e", "r", "a", " ", "D", "i", "g",
           "i", "t", "a", "l">>>>,
     <<<<"O", "T", "R", "O">>,
       <<"O", "t", "r", "o">>>> >>

\* class ExpenseStatus(str, Enum): <<member name, value>>
ExpenseStatus ==
  << <<<<"P", "E", "N", "D", "I", "E", "N", "T", "E">>,
       <<"P", "e", "n", "d", "i", "e", "n", "t", "e">>>>,
     <<<<"C", "O", "N", "F", "I", "R", "M", "A", "D", "O">>,
       <<"C", "o", "n", "f", "i", "r", "m", "a", "d", "o">>>>,
     <<<<"R", "E", "E", "M", "B", "O", "L", "S", "A", "B", "L", "E">>,
       <<"R", "e", "e", "m", "b", "o", "l", "s", "a", "b", "l", "e">>>>,
     <<<<"I", "M", "P", "U", "T", "A", "B", "L", "E">>,
       <<"I", "m", "p", "u", "t", "a", "b", "l", "e">>>> >>

\* Enum[name] succeeds (does not raise KeyError)
EnumHas(enum, name) == \E i \in 1..Len(enum) : enum[i][1] = name

\* Enum[name].value
EnumValue(enum, name) == enum[CHOOSE i \in 1..Len(enum) : enum[i][1] = name][2]

\* try: ExpenseStatus[status.upper().replace(" ", "_")]
\* except KeyError: ExpenseStatus.CONFIRMADO          (then .value)
StatusLabel(status) ==
  LET key == Replace(Upper(status), " ", "_")
  IN IF EnumHas(ExpenseStatus, key)
       THEN EnumValue(ExpenseStatus, key)
       ELSE EnumValue(ExpenseStatus, <<"C", "O", "N", "F", "I", "R", "M",
                                         "A", "D", "O">>)

\* Mutant: the key is looked up without upper-casing the input
PaymentLabel_NoUpper(payment_method) ==
  LET key == Replace(payment_method, " ", "_")
  IN IF EnumHas(PaymentMethod, key)
       THEN EnumValue(PaymentMethod, key)
       ELSE EnumValue(PaymentMethod, <<"O", "T", "R", "O">>)

\* try: PaymentMethod[payment_method.upper().replace(" ", "_")]
\* except KeyError: PaymentMethod.OTRO                (then .value)
PaymentLabel(payment_method) ==
  LET key == Replace(Upper(payment_method), " ", "_")
  IN IF EnumHas(PaymentMethod, key)
       THEN EnumValue(PaymentMethod, key)
       ELSE EnumValue(PaymentMethod, <<"O", "T", "R", "O">>)

tax_deductible ==
  << <<<<"A", "l", "i", "m", "e", "n", "t", "a", "c", "i", "U+00F3", "n">>, FALSE>>,
     <<<<"T", "r", "a", "n", "s", "p", "o", "r", "t", "e">>, TRUE>>,
     <<<<"S", "e", "r", "v", "i", "c", "i", "o", "s">>, TRUE>>,
     <<<<"S", "a", "l", "u", "d">>, TRUE>>,
     <<<<"E", "d", "u", "c", "a", "c", "i", "U+00F3", "n">>, TRUE>>,
     <<<<"O", "f", "i", "c", "i", "n", "a">>, TRUE>>,
     <<<<"T", "e", "c", "n", "o", "l", "o", "g", "U+00ED", "a">>, TRUE>>,
     <<<<"V", "i", "a", "j", "e">>, TRUE>>,
     <<<<"G", "e", "n", "e", "r", "a", "l">>, FALSE>> >>

LabelSi == <<"S", "U+00ED">>

LabelNo == <<"N", "o">>

\* Mutant: tax_deductible.get(category, True)
calculate_tax_category_DefaultTrue(amount, category) ==
  IF \A i \in 1..Len(tax_deductible) :
       tax_deductible[i][1] = category => tax_deductible[i][2]
    THEN LabelSi
    ELSE LabelNo

\* calculate_tax_category: "Sí" if tax_deductible.get(category, False) else "No"
calculate_tax_category(amount, category) ==
  IF \E i \in 1..Len(tax_deductible) :
       tax_deductible[i][1] = category /\ tax_deductible[i][2]
    THEN LabelSi
    ELSE LabelNo

----------------------------------------------------------------------------
(* The strings add_expense returns                                         *)

FailureMarker == "U+274C"

MSG_NOT_POSITIVE ==
  <<"U+274C", " ", "E", "l", " ", "m", "o", "n", "t", "o", " ", "d", "e",
      "b", "e", " ", "s", "e", "r", " ", "m", "a", "y", "o", "r", " ", "a",
      " ", "0">>

MSG_INVALID ==
  <<"U+274C", " ", "M", "o", "n", "t", "o", " ", "i", "n", "v", "U+00E1",
      "l", "i", "d", "o", ":", " ">>

MSG_APPEND_ERROR ==
  <<"U+274C", " ", "E", "r", "r", "o", "r", " ", "a", "l", " ", "r", "e",
      "g", "i", "s", "t", "r", "a", "r", ":", " ">>

MSG_NO_SHEETS ==
  <<"S", "p", "r", "e", "a", "d", "s", "h", "e", "e", "t", " ", "h", "a",
      "s", " ", "n", "o", " ", "s", "h", "e", "e", "t", "s", "/", "t", "a",
      "b", "s", ".">>

\* The confirmation of lines 157-167
Confirmation(receipt_id, date_str, time_str, amt, currency, description, category, payment_label, is_deductible, status_label) ==
  <<"U+2705", " ", "G", "A", "S", "T", "O", " ", "R", "E", "G", "I", "S",
      "T", "R", "A", "D", "O", "\n">>
  \o <<"U+1F4CB", " ", "R", "e", "c", "i", "b", "o", ":", " ">> \o receipt_id \o <<"\n">>
  \o <<"U+1F4C5", " ">> \o date_str \o <<" ">> \o time_str \o <<"\n">>
  \o <<"U+1F4B0", " ">> \o amt \o <<" ">> \o currency \o <<"\n">>
  \o <<"U+1F4DD", " ">> \o description \o <<"\n">>
  \o <<"U+1F3F7", "U+FE0F", " ", " ">> \o category \o <<"\n">>
  \o <<"U+1F4B3", " ">> \o payment_label \o <<"\n">>
  \o <<"U+1F4CA", " ", "D", "e", "d", "u", "c", "i", "b", "l", "e", ":",
         " ">> \o is_deductible \o <<"\n">>
  \o <<"U+1F4CD", " ", "E", "s", "t", "a", "d", "o", ":", " ">> \o status_label

----------------------------------------------------------------------------
(* The deployment and the spreadsheet service                              *)

\* os.environ.get("GSHEETS_DEFAULT_SPREADSHEET_ID", ""): the modelled
\* deployment sets it to the spreadsheet "S1"
DEFAULT_SPREADSHEET_ID == <<"S", "1">>

\* The spreadsheets the service holds, as <<id, titles of its tabs>>: "S1"
\* has two tabs and "S0" none.  Any other id is unknown to the service.
Spreadsheets ==
  << <<<<"S", "1">>, <<<<"G", "a", "s", "t", "o", "s">>, <<"O", "t", "r", "o", "s">>>>>>,
     <<<<"S", "0">>, <<>>>> >>

HasSpreadsheet(sid) == \E i \in 1..Len(Spreadsheets) : Spreadsheets[i][1] = sid

TabsOf(sid) == Spreadsheets[CHOOSE i \in 1..Len(Spreadsheets) : Spreadsheets[i][1] = sid][2]

HasTab(sid, title) ==
  HasSpreadsheet(sid) /\ \E i \in 1..Len(TabsOf(sid)) : TabsOf(sid)[i] = title

\* str(e) of the exceptions the service client raises
ErrorTexts == {<<"H", "t", "t", "p", "E", "r", "r", "o", "r", " ", "4",
                 "2", "9">>}

----------------------------------------------------------------------------
(* add_expense                                                             *)

\* Bounds of the model
NCalls == 2

MaxTicks == 1

MaxAmountLen == 3

\* The clock at the start: 2024-12-31 16:59:59 UTC, one second before
\* midnight (and the new year) in Asia/Bangkok
StartEpoch == 1735664399

Calls == 1..NCalls

\* The parameters' defaults (lines 70-76)
DefaultArgs ==
  [description |-> <<>>, amount |-> <<>>,
   category |-> <<"G", "e", "n", "e", "r", "a", "l">>,
   currency |-> <<"U", "S", "D">>,
   payment_method |-> <<"T", "a", "r", "j", "e", "t", "a", " ", "C", "r",
                          "U+00E9", "d", "i", "t", "o">>,
   status |-> <<"C", "o", "n", "f", "i", "r", "m", "a", "d", "o">>,
   notes |-> <<>>, sheet_name |-> <<>>, spreadsheet_id |-> <<>>]

\* A call of add_expense(description, amount) with the other arguments at
\* their defaults
Args(description, amount) ==
  [DefaultArgs EXCEPT !.description = description, !.amount = amount]

\* Mutant: "if amt_float < 0", which lets a zero amount through
ValidateAmount_AllowsZero(amt) ==
  LET amt_float == ParseFloat(amt)
  IN IF ~amt_float.ok THEN "invalid"
     ELSE IF FloatLeZero(amt_float) /\ amt_float.kind # "zero" THEN "not_positive"
     ELSE "ok"

\* Lines 108-113: "ok", or which rejection is returned
ValidateAmount(amt) ==
  LET amt_float == ParseFloat(amt)
  IN IF ~amt_float.ok THEN "invalid"
     ELSE IF FloatLeZero(amt_float) THEN "not_positive"
     ELSE "ok"

\* Mutant: the notes and the time change places
BuildRow_NotesBeforeTime(date_str, receipt_id, description, category, amt, currency, payment_label, is_deductible, status_label, time_str, notes, month_year) ==
  <<date_str, receipt_id, description, category, amt, currency,
    payment_label, is_deductible, status_label, notes, time_str, month_year>>

\* Lines 134-147: the row
BuildRow(date_str, receipt_id, description, category, amt, currency, payment_label, is_deductible, status_label, time_str, notes, month_year) ==
  <<date_str, receipt_id, description, category, amt, currency,
    payment_label, is_deductible, status_label, time_str, notes, month_year>>

\* A call that has not started
IdleCall ==
  [pc |-> "idle", args |-> DefaultArgs, sid |-> <<>>, title |-> <<>>,
   now |-> 0, amt |-> <<>>, receipt_id |-> <<>>, row |-> <<>>,
   result |-> <<>>, error |-> <<>>,
   metaCalls |-> 0, appendCalls |-> 0, idsGenerated |-> 0]

\* Lines 99-155 for a call whose tab title is known, when the clock shows t:
\* the call returns a rejection, or has sent the append request.
Prepare(c, title, t) ==
  LET a == c.args
      now == NowICT(t)
      date_str == StrfDate(now)
      time_str == StrfTime(now)
      month_year == StrfMonthYear(now)
      amt == Replace(a.amount, ",", ".")
      verdict == ValidateAmount(amt)
      receipt_id == generate_receipt_id(a.description, amt, date_str \o time_str)
      is_deductible == calculate_tax_category(ParseFloat(amt), a.category)
      row == BuildRow(date_str, receipt_id, a.description, a.category, amt,
                      a.currency, PaymentLabel(a.payment_method), is_deductible,
                      StatusLabel(a.status), time_str, a.notes, month_year)
      read == [c EXCEPT !.title = title, !.now = t, !.amt = amt]
  IN CASE verdict = "not_positive" ->
            [read EXCEPT !.pc = "returned", !.result = MSG_NOT_POSITIVE]
       [] verdict = "invalid" ->
            [read EXCEPT !.pc = "returned", !.result = MSG_INVALID \o amt]
       [] verdict = "ok" ->
            [read EXCEPT !.pc = "append", !.receipt_id = receipt_id,
                         !.idsGenerated = @ + 1, !.row = row,
                         !.appendCalls = @ + 1]

\* Lines 157-167: the reply to a call whose append succeeded
Reply(c) ==
  Confirmation(c.row[2], c.row[1], c.row[10], c.row[5], c.row[6], c.row[3],
               c.row[4], c.row[7], c.row[8], c.row[9])

\* The service appends the rows of one request to the tab
AppendRows(s, sid, title, rows, by) ==
  s \o [i \in 1..Len(rows) |-> [sid |-> sid, title |-> title, row |-> rows[i], by |-> by]]

----------------------------------------------------------------------------
(* The arguments callers send                                              *)

RECURSIVE Strings(_, _)
Strings(alphabet, n) ==
  IF n = 0 THEN {<<>>}
  ELSE LET shorter == Strings(alphabet, n - 1)
       IN shorter \cup {Append(s, ch) : s \in shorter, ch \in alphabet}

AmountAlphabet == {"0", "5", ".", ",", "-", " ", "n", "a", "i", "f"}

\* Amounts at the edges of a double's range, either side of each rounding
\* threshold of float()
ExtremeAmounts ==
  {<<"2", ".", "4", "7", "0", "3", "2", "8", "2", "3", "e", "-", "3", "2",
      "4">>,
   <<"2", ".", "4", "7", "0", "3", "2", "8", "2", "2", "e", "-", "3", "2",
      "4">>,
   <<"5", "e", "-", "3", "2", "4">>,
   <<"1", "e", "-", "4", "0", "0">>,
   <<"1", ".", "7", "9", "7", "6", "9", "3", "1", "4", "e", "3", "0", "8">>,
   <<"1", ".", "7", "9", "7", "6", "9", "3", "1", "3", "e", "3", "0", "8">>,
   <<"1", "7", "9", "7", "6", "9", "3", "1", "3", "4", "8", "6", "2", "3",
      "1", "5", "9", "e", "2", "9", "2">>,
   <<"1", "E", "+", "3", "0", "9">>}

ScenarioA ==
  [Args(<<"T", "a", "x", "i">>, <<"1", "2", ".", "5", "0">>)
     EXCEPT !.category = <<"T", "r", "a", "n", "s", "p", "o", "r", "t",
                             "e">>,
            !.currency = <<"E", "U", "R">>]

\* Scenario A's description and amount (with the other decimal separator),
\* everything else different
ScenarioA2 ==
  [description |-> <<"T", "a", "x", "i">>, amount |-> <<"1", "2", ",", "5", "0">>,
   category |-> <<"A", "l", "i", "m", "e", "n", "t", "a", "c", "i",
                    "U+00F3", "n">>,
   currency |-> <<"U", "S", "D">>,
   payment_method |-> <<"e", "f", "e", "c", "t", "i", "v", "o">>,
   status |-> <<"p", "e", "n", "d", "i", "e", "n", "t", "e">>,
   notes |-> <<"i", "d", "a">>,
   sheet_name |-> <<"O", "t", "r", "o", "s">>,
   spreadsheet_id |-> <<" ", "S", "1", " ">>]

ScenarioB == Args(<<"C", "e", "n", "a">>, <<"0">>)

ScenarioNoTabs ==
  [Args(<<"T", "a", "x", "i">>, <<"1", "2", ".", "5", "0">>)
     EXCEPT !.spreadsheet_id = <<"S", "0">>]

PaymentInputs ==
  {PaymentMethod[i][2] : i \in 1..Len(PaymentMethod)}
  \cup {PaymentMethod[i][1] : i \in 1..Len(PaymentMethod)}
  \cup {<<"e", "f", "e", "c", "t", "i", "v", "o">>, <<"g", "i", "f", "t", " ", "c", "a", "r", "d">>,
        <<"t", "a", "r", "j", "e", "t", "a", " ", "c", "r", "e", "d",
            "i", "t", "o">>,
        <<"T", "a", "r", "j", "e", "t", "a", "_", "D", "e", "b", "i",
            "t", "o">>,
        <<"b", "i", "l", "l", "e", "t", "e", "r", "a", " ", " ", "d",
            "i", "g", "i", "t", "a", "l">>, <<>>}

StatusInputs ==
  {ExpenseStatus[i][2] : i \in 1..Len(ExpenseStatus)}
  \cup {ExpenseStatus[i][1] : i \in 1..Len(ExpenseStatus)}
  \cup {<<"p", "e", "n", "d", "i", "e", "n", "t", "e">>, <<"R", "e", "E", "m", "b", "o", "l", "s", "a", "b",
                         "l", "e">>,
        <<"p", "a", "g", "a", "d", "o">>, <<" ", "i", "m", "p", "u", "t", "a", "b", "l", "e">>, <<>>}

CategoryInputs ==
  {tax_deductible[i][1] : i \in 1..Len(tax_deductible)}
  \cup {<<"M", "a", "s", "c", "o", "t", "a", "s">>, <<"t", "r", "a", "n", "s", "p", "o", "r", "t", "e">>,
        <<"A", "l", "i", "m", "e", "n", "t", "a", "c", "i", "o", "n">>, <<>>}

\* The arguments of a call under each workload
Inputs(w) ==
  CASE w = "main" -> {ScenarioA, ScenarioA2, ScenarioB, ScenarioNoTabs}
    [] w = "amount" ->
         {[Args(<<"T", "a", "x", "i">>, s) EXCEPT !.sheet_name = n] :
            s \in Strings(AmountAlphabet, MaxAmountLen) \cup ExtremeAmounts,
            n \in {<<>>, <<"G", "a", "s", "t", "o", "s">>}}
    [] w = "labels" ->
         {[Args(<<"T", "a", "x", "i">>, <<"1", "2", ".", "5", "0">>)
             EXCEPT !.payment_method = p, !.status = s, !.sheet_name = n] :
            p \in PaymentInputs, s \in StatusInputs,
            n \in {<<>>, <<"G", "a", "s", "t", "o", "s">>}}
    [] w = "category" ->
         {[Args(<<"T", "a", "x", "i">>, s)
             EXCEPT !.category = k, !.sheet_name = n] :
            k \in CategoryInputs,
            s \in {<<"1", "2", ".", "5", "0">>, <<"0", ",", "0", "1">>, <<"9", "9", "9", "9", "9">>, <<"0">>},
            n \in {<<>>, <<"G", "a", "s", "t", "o", "s">>}}

\* How many calls a workload makes
CallsOf(w) == IF w = "main" THEN NCalls ELSE 1

----------------------------------------------------------------------------
(* The state machine                                                       *)

InitWith(w) ==
  /\ workload = w
  /\ clock = StartEpoch
  /\ store = <<>>
  /\ call = [c \in Calls |-> IdleCall]

Init == InitWith("main")

\* add_expense is called (calls are numbered in the order they start).
\* Line 96, and line 97: with a sheet name the call runs up to its append
\* request; without one it asks the service for the spreadsheet's metadata.
Invoke(c) ==
  /\ call[c].pc = "idle"
  /\ c <= CallsOf(workload)
  /\ \A d \in 1..(c - 1) : call[d].pc # "idle"
  /\ \E a \in Inputs(workload) :
       LET sid == Strip(IF a.spreadsheet_id # <<>> THEN a.spreadsheet_id
                        ELSE DEFAULT_SPREADSHEET_ID)
           started == [call[c] EXCEPT !.args = a, !.sid = sid]
       IN \/ /\ a.sheet_name # <<>>
             /\ call' = [call EXCEPT ![c] = Prepare(started, a.sheet_name, clock)]
          \/ /\ a.sheet_name = <<>>
             /\ call' = [call EXCEPT ![c] =
                           [started EXCEPT !.pc = "meta", !.metaCalls = @ + 1]]
  /\ UNCHANGED <<workload, clock, store>>

\* first_sheet_title: the metadata arrives.  With no tab the RuntimeError
\* of line 43 leaves add_expense (line 97 is outside every try).
MetaReturn(c) ==
  /\ call[c].pc = "meta"
  /\ HasSpreadsheet(call[c].sid)
  /\ LET sh == TabsOf(call[c].sid)
     IN \/ /\ sh # <<>>
           /\ call' = [call EXCEPT ![c] = Prepare(call[c], sh[1], clock)]
        \/ /\ sh = <<>>
           /\ call' = [call EXCEPT ![c] =
                         [call[c] EXCEPT !.pc = "raised", !.error = MSG_NO_SHEETS]]
  /\ UNCHANGED <<workload, clock, store>>

\* first_sheet_title: sheets() or the metadata request raises, and the
\* exception leaves add_expense
MetaFail(c) ==
  /\ call[c].pc = "meta"
  /\ \E e \in ErrorTexts :
       call' = [call EXCEPT ![c] = [call[c] EXCEPT !.pc = "raised", !.error = e]]
  /\ UNCHANGED <<workload, clock, store>>

\* Mutant: a row whose receipt identifier the tab already holds is dropped
AppendOk_Dedup(c) ==
  /\ call[c].pc = "append"
  /\ HasTab(call[c].sid, call[c].title)
  /\ store' = IF \E i \in 1..Len(store) : store[i].row[2] = call[c].row[2]
                THEN store
                ELSE AppendRows(store, call[c].sid, call[c].title, <<call[c].row>>, c)
  /\ call' = [call EXCEPT ![c] =
                [call[c] EXCEPT !.pc = "returned", !.result = Reply(call[c])]]
  /\ UNCHANGED <<workload, clock>>

\* Lines 150-167: the service appends the row and the call confirms
AppendOk(c) ==
  /\ call[c].pc = "append"
  /\ HasTab(call[c].sid, call[c].title)
  /\ store' = AppendRows(store, call[c].sid, call[c].title, <<call[c].row>>, c)
  /\ call' = [call EXCEPT ![c] =
                [call[c] EXCEPT !.pc = "returned", !.result = Reply(call[c])]]
  /\ UNCHANGED <<workload, clock>>

\* Lines 169-170: the append raises; the row was not written, or it was
\* written and the answer was lost
AppendFail(c) ==
  /\ call[c].pc = "append"
  /\ \E e \in ErrorTexts :
       call' = [call EXCEPT ![c] =
                  [call[c] EXCEPT !.pc = "returned", !.result = MSG_APPEND_ERROR \o e]]
  /\ \/ store' = store
     \/ /\ HasTab(call[c].sid, call[c].title)
        /\ store' = AppendRows(store, call[c].sid, call[c].title, <<call[c].row>>, c)
  /\ UNCHANGED <<workload, clock>>

\* A second passes
Tick ==
  /\ clock < StartEpoch + MaxTicks
  /\ clock' = clock + 1
  /\ UNCHANGED <<workload, store, call>>

Next ==
  \/ \E c \in Calls : Invoke(c)
  \/ \E c \in Calls : MetaReturn(c)
  \/ \E c \in Calls : MetaFail(c)
  \/ \E c \in Calls : AppendOk(c)
  \/ \E c \in Calls : AppendFail(c)
  \/ Tick

\* Calls of add_expense with the scenarios' arguments
Spec == Init /\ [][Next]_vars

\* One call, over every amount string of the alphabet
SpecAmount == InitWith("amount") /\ [][Next]_vars

\* One call, over the payment methods and statuses
SpecLabels == InitWith("labels") /\ [][Next]_vars

\* One call, over the categories
SpecCategory == InitWith("category") /\ [][Next]_vars

----------------------------------------------------------------------------
(* Properties                                                              *)

StartsWith(s, prefix) ==
  Len(s) >= Len(prefix) /\ SubSeq(s, 1, Len(prefix)) = prefix

\* The call has returned a string
Returned(c) == call[c].pc = "returned"

\* The call has returned the confirmation
Confirmed(c) == Returned(c) /\ StartsWith(call[c].result, <<"U+2705">>)

\* The call has returned a rejection
Rejected(c) == Returned(c) /\ StartsWith(call[c].result, <<FailureMarker>>)

\* The call has returned one of the two amount rejections
AmountRejected(c) ==
  /\ Returned(c)
  /\ \/ call[c].result = MSG_NOT_POSITIVE
     \/ StartsWith(call[c].result, MSG_INVALID)

\* The call has built a row and handed it to the append operation
HandedOver(c) == call[c].appendCalls >= 1

\* The rows of the store that call c contributed
RowsBy(c) == {i \in 1..Len(store) : store[i].by = c}

\* The amount text of a call, "," replaced by "."
AmountText(c) == Replace(call[c].args.amount, ",", ".")

\* The values of a closed table
Labels(enum) == {enum[i][2] : i \in 1..Len(enum)}

\* C1: a call whose amount (after replacing "," with ".") does not parse
\* or is <= 0 returns its rejection without having generated a receipt
\* identifier and without any collaborator call, whatever the sheet name.
C1_AmountRejectionShortCircuits ==
  \A c \in Calls :
    (Returned(c) /\ (~ParseFloat(AmountText(c)).ok \/ FloatLeZero(ParseFloat(AmountText(c)))))
      => /\ call[c].idsGenerated = 0
         /\ call[c].metaCalls = 0
         /\ call[c].appendCalls = 0

\* C2: every call ends by returning a string, a confirmation or a rejection
\* that starts with the failure marker; no exception leaves add_expense.
C2_NoExceptionEscapes ==
  \A c \in Calls :
    /\ call[c].pc # "raised"
    /\ Returned(c) => (Confirmed(c) \/ Rejected(c))

\* C3: a call invokes append at most once, and only after the amount was
\* validated and the receipt id, deductible flag and labels were derived; a
\* call that confirmed invoked it exactly once and has exactly one row in the
\* store; a call rejected before the append step (or left by an exception)
\* invoked it zero times and has no row in the store.
C3_AppendOnceAfterValidation ==
  \A c \in Calls :
    /\ call[c].appendCalls <= 1
    /\ Cardinality(RowsBy(c)) <= call[c].appendCalls
    /\ HandedOver(c) =>
         /\ ParseFloat(AmountText(c)).ok
         /\ ~FloatLeZero(ParseFloat(AmountText(c)))
         /\ call[c].idsGenerated = 1
         /\ Len(call[c].row) = 12
         /\ Len(call[c].row[2]) = 8
         /\ call[c].row[7] \in Labels(PaymentMethod)
         /\ call[c].row[8] \in {LabelSi, LabelNo}
         /\ call[c].row[9] \in Labels(ExpenseStatus)
    /\ Confirmed(c) => (call[c].appendCalls = 1 /\ Cardinality(RowsBy(c)) = 1)
    /\ (AmountRejected(c) \/ call[c].pc = "raised") =>
         (call[c].appendCalls = 0 /\ RowsBy(c) = {})

\* One call has confirmed with its one row in the store while another was
\* rejected for its amount and left nothing
C3_Witness ==
  \E c, d \in Calls :
    /\ Confirmed(c) /\ Cardinality(RowsBy(c)) = 1
    /\ AmountRejected(d) /\ call[d].args.amount = <<"0">>
    /\ Len(store) = 1

\* A positive decimal as the claim has it: digits with at most one "." or
\* "," as the decimal separator, not all of them zero, optionally followed
\* by a power of ten (e, sign, digits), white space allowed around it
DenotesPositiveDecimal(s) ==
  LET t == Strip(s)
      ePos == FirstIn(t, {"e", "E"})
      m == IF ePos = 0 THEN t ELSE SubSeq(t, 1, ePos - 1)
      seps == {i \in 1..Len(m) : m[i] \in {".", ","}}
  IN /\ \A i \in 1..Len(m) : IsDigit(m[i]) \/ m[i] \in {".", ","}
     /\ Cardinality(seps) <= 1
     /\ \E i \in 1..Len(m) : IsDigit(m[i]) /\ m[i] # "0"
     /\ ePos # 0 => ParseExponent(SubSeq(t, ePos + 1, Len(t))).ok

\* C4: amount validation accepts exactly the strings that denote a positive
\* decimal, with "." or "," as the separator; every string that is not
\* numeric, or denotes zero or a negative value, is rejected.
C4_AcceptsExactlyPositiveDecimals ==
  \A c \in Calls :
    call[c].pc \in {"append", "returned"} =>
      (HandedOver(c) <=> DenotesPositiveDecimal(call[c].args.amount))

\* The key a label is looked up by, and the label the claim expects
ExpectedLabel(enum, raw, fallback) ==
  LET key == Replace(Upper(raw), " ", "_")
  IN IF \E i \in 1..Len(enum) : enum[i][1] = key
       THEN enum[CHOOSE i \in 1..Len(enum) : enum[i][1] = key][2]
       ELSE fallback

\* C5: the row carries, for the payment method and the status, the label of
\* the table key that the upper-cased input with "_" for " " equals, and the
\* fallback label ("Otro", "Confirmado") when it equals none; so "pendiente"
\* gives "Pendiente" and "gift card" gives "Otro"; and no input makes the
\* call fail: a call with a valid amount and a known tab always builds its row.
C5_LabelMapping ==
  \A c \in Calls :
    /\ HandedOver(c) =>
         /\ call[c].row[7] = ExpectedLabel(PaymentMethod, call[c].args.payment_method,
                                           <<"O", "t", "r", "o">>)
         /\ call[c].row[9] = ExpectedLabel(ExpenseStatus, call[c].args.status,
                                           <<"C", "o", "n", "f", "i",
                                               "r", "m", "a", "d", "o">>)
         /\ call[c].args.status = <<"p", "e", "n", "d", "i", "e", "n",
                                      "t", "e">>
              => call[c].row[9] = <<"P", "e", "n", "d", "i", "e", "n",
                                      "t", "e">>
         /\ call[c].args.payment_method = <<"g", "i", "f", "t", " ", "c",
                                              "a", "r", "d">>
              => call[c].row[7] = <<"O", "t", "r", "o">>
         /\ call[c].args.payment_method = <<"e", "f", "e", "c", "t", "i",
                                              "v", "o">>
              => call[c].row[7] = <<"E", "f", "e", "c", "t", "i", "v",
                                      "o">>
    /\ call[c].pc = "raised" => call[c].title = <<>>
    /\ (call[c].pc \in {"append", "returned"} /\ ParseFloat(AmountText(c)).ok
        /\ ~FloatLeZero(ParseFloat(AmountText(c)))) => HandedOver(c)

\* A row was appended for status "pendiente" and payment method "gift card"
C5_Witness ==
  \E c \in Calls :
    /\ Confirmed(c)
    /\ call[c].args.status = <<"p", "e", "n", "d", "i", "e", "n", "t",
                                 "e">>
    /\ call[c].args.payment_method = <<"g", "i", "f", "t", " ", "c", "a",
                                         "r", "d">>
    /\ \E i \in RowsBy(c) :
         /\ store[i].row[9] = <<"P", "e", "n", "d", "i", "e", "n", "t",
                                  "e">>
         /\ store[i].row[7] = <<"O", "t", "r", "o">>

\* What the claim says of the row of a call with arguments a that read the
\* clock at t
RowAsClaimed(row, a, t, id) ==
  /\ Len(row) = 12
  /\ row[1] = StrfDate(NowICT(t))
  /\ row[2] = id
  /\ row[3] = a.description
  /\ row[4] = a.category
  /\ row[5] = Replace(a.amount, ",", ".")
  /\ row[6] = a.currency
  /\ row[7] \in Labels(PaymentMethod)
  /\ row[8] \in {LabelSi, LabelNo}
  /\ row[9] \in Labels(ExpenseStatus)
  /\ row[10] = StrfTime(NowICT(t))
  /\ row[11] = a.notes
  /\ row[12] = StrfMonthYear(NowICT(t))

\* C6: every row handed to the append operation has 12 columns in the
\* order date, receipt id, description, category, amount text, currency,
\* payment label, deductible flag, status label, time, notes, month and
\* year; the caller's values are unchanged and the amount is not converted
\* (Taxi / 12.50 / Transporte / EUR gives "12.50" and "Sí").
C6_RowColumns ==
  /\ \A c \in Calls :
       HandedOver(c) =>
         /\ RowAsClaimed(call[c].row, call[c].args, call[c].now, call[c].receipt_id)
         /\ call[c].args = ScenarioA =>
              /\ call[c].row[3] = <<"T", "a", "x", "i">>
              /\ call[c].row[5] = <<"1", "2", ".", "5", "0">>
              /\ call[c].row[6] = <<"E", "U", "R">>
              /\ call[c].row[8] = <<"S", "U+00ED">>
         /\ call[c].args = ScenarioA2 =>
              /\ call[c].row[5] = <<"1", "2", ".", "5", "0">>
              /\ call[c].row[11] = <<"i", "d", "a">>
  /\ \A i \in 1..Len(store) : store[i].row = call[store[i].by].row

\* Scenario A's row and a row with notes, written in the first second of 2025
\* in Asia/Bangkok, are in the store
C6_Witness ==
  \E i, j \in 1..Len(store) :
    /\ call[store[i].by].args = ScenarioA
    /\ call[store[j].by].args = ScenarioA2
    /\ store[j].row[1] = <<"2", "0", "2", "5", "-", "0", "1", "-", "0",
                             "1">>
    /\ store[j].row[10] = <<"0", "0", ":", "0", "0", ":", "0", "0">>
    /\ store[j].row[12] = <<"J", "a", "n", "u", "a", "r", "y", " ", "2",
                              "0", "2", "5">>

\* C7: the deductible flag is "Sí" exactly for Transporte, Servicios, Salud,
\* Educación, Oficina, Tecnología and Viaje, and "No" for every other
\* category, whatever the amount.
C7_DeductibleByCategoryAlone ==
  \A c \in Calls :
    HandedOver(c) =>
      call[c].row[8] =
        IF call[c].args.category \in
             {<<"T", "r", "a", "n", "s", "p", "o", "r", "t", "e">>,
              <<"S", "e", "r", "v", "i", "c", "i", "o", "s">>,
              <<"S", "a", "l", "u", "d">>,
              <<"E", "d", "u", "c", "a", "c", "i", "U+00F3", "n">>,
              <<"O", "f", "i", "c", "i", "n", "a">>,
              <<"T", "e", "c", "n", "o", "l", "o", "g", "U+00ED", "a">>,
              <<"V", "i", "a", "j", "e">>}
          THEN <<"S", "U+00ED">>
          ELSE <<"N", "o">>

\* A row for the unknown category "Mascotas" and a large amount was appended
\* as not deductible
C7_Witness ==
  \E i \in 1..Len(store) :
    /\ store[i].row[4] = <<"M", "a", "s", "c", "o", "t", "a", "s">>
    /\ store[i].row[5] = <<"9", "9", "9", "9", "9">>
    /\ store[i].row[8] = <<"N", "o">>

\* The first eight hexadecimal digits, in upper case, of the MD5 of the
\* row's description, amount text, date and time
IdOfRow(row) == Upper(SubSeq(MD5Hex(Encode(row[3] \o row[5] \o row[1] \o row[10])), 1, 8))

\* C8: the receipt identifier of a row is the identifier of its own
\* description, amount text and date and time, so two rows that agree on
\* those carry the same identifier whatever their other columns.
C8_ReceiptIdFromRowAlone ==
  /\ \A c \in Calls :
       call[c].pc = "append" => call[c].row[2] = IdOfRow(call[c].row)
  /\ \A i \in 1..Len(store) : store[i].row = call[store[i].by].row
  /\ \A c, d \in Calls :
       (HandedOver(c) /\ HandedOver(d)
        /\ call[c].args.description = call[d].args.description
        /\ AmountText(c) = AmountText(d)
        /\ call[c].now = call[d].now)
         => call[c].row[2] = call[d].row[2]

\* Two calls in the same second with the same description and amounts
\* "12.50" and "12,50", and different categories, currencies, payment
\* methods, statuses and notes, appended rows with the same identifier
C8_Witness ==
  \E i, j \in 1..Len(store) :
    /\ call[store[i].by].args = ScenarioA
    /\ call[store[j].by].args = ScenarioA2
    /\ store[i].row[1] = store[j].row[1]
    /\ store[i].row[10] = store[j].row[10]
    /\ store[i].row[2] = store[j].row[2]
    /\ store[i].row[4] # store[j].row[4]

\* C9: calls are not deduplicated, queued or serialized: every call that
\* confirmed has its own row in the store, also when another call's row has
\* the same receipt identifier, and its row and reply are those of its own
\* arguments and clock reading.
C9_EveryConfirmedCallHasItsRow ==
  /\ \A c \in Calls :
       Confirmed(c) =>
         /\ \E i \in RowsBy(c) : store[i].row = call[c].row
         /\ call[c].result = Reply(call[c])
  /\ Len(store) >= Cardinality({c \in Calls : Confirmed(c)})
  /\ \A c, d \in Calls :
       (HandedOver(c) /\ HandedOver(d) /\ call[c].args = call[d].args
        /\ call[c].now = call[d].now)
         => call[c].row = call[d].row

\* Two calls that overlapped have both confirmed, and the store holds both
\* their rows, which carry the same receipt identifier
C9_Witness ==
  \E c, d \in Calls :
    /\ c # d /\ Confirmed(c) /\ Confirmed(d)
    /\ \E i \in RowsBy(c), j \in RowsBy(d) :
         /\ store[i].row[2] = store[j].row[2]
         /\ i < j /\ c > d

\* C10: every canonical label is a fixed point of the label mapping: a call
\* whose payment method (status) is one of the table's labels records that
\* label; so the defaults record "Tarjeta Crédito" and "Confirmado".
C10_CanonicalLabelsAreFixedPoints ==
  \A c \in Calls :
    HandedOver(c) =>
      /\ call[c].args.payment_method \in Labels(PaymentMethod)
           => call[c].row[7] = call[c].args.payment_method
      /\ call[c].args.status \in Labels(ExpenseStatus)
           => call[c].row[9] = call[c].args.status
=============================================================================
